---------------------------- MODULE Spec2Model ----------------------------
(***************************************************************************)
(* Model of gen_pubkeyComp_subsOnly_bin_MP.py: the generator of the points *)
(* P - i*Z*G (key codec, range partitioner, block worker, multiprocessing  *)
(* pool with ordered imap consumption, driver).                            *)
(*                                                                         *)
(* The curve is y^2 = x^3 + 7 as in the source, over the field F_43        *)
(* instead of the 256-bit field of secp256k1: the group then has prime     *)
(* order 31 and P_FIELD = 3 (mod 4), as for secp256k1, and every integer   *)
(* stays inside TLC's range.  Hex strings are sequences of digit values    *)
(* 0..15; the value 16 stands for a character that is not a hex digit.     *)
(***************************************************************************)
EXTENDS Integers, Sequences, FiniteSets, TLC

(* ------------------------------ bounds -------------------------------- *)
MaxRange  == 4      \* range expressions evaluate to -1 .. MaxRange (and 2*ORDER)
MaxChunks == 4      \* --chunks is drawn from -2 .. MaxChunks
MaxBlock  == 3      \* --block-size is drawn from -1 .. MaxBlock
MaxCores  == 2      \* --cores is drawn from 0 .. MaxCores
MaxKey    == 2      \* public keys n*G for n in 1 .. MaxKey (and -G)

MaxLines  == 2      \* key files of the converter have 0 .. MaxLines lines

(* -------------------------- curve parameters --------------------------- *)
P_FIELD == 43
A       == 0
B       == 7
ORDER   == 31
GEN     == [x |-> 2, y |-> 12]
None    == -1                       \* Python's None: no field element is -1
INFINITY == [x |-> None, y |-> None]

HexLen   == 64                      \* width of the x field of a compressed key

(* --------------------------- Python integers --------------------------- *)
Min(a, b) == IF a <= b THEN a ELSE b

\* a % m for m > 0: the result is in 0 .. m-1 for every sign of a
PyMod(a, m) == ((a % m) + m) % m

\* a // b: floor division, for every sign of a and b (b # 0)
PyFloorDiv(a, b) ==
    LET fd(n, d) == IF n >= 0 THEN n \div d ELSE -((-n + d - 1) \div d)
    IN  IF b > 0 THEN fd(a, b) ELSE fd(-a, -b)

\* pow(b, e, m)
RECURSIVE ModPow(_, _, _)
ModPow(b, e, m) ==
    IF e = 0 THEN 1 % m
    ELSE LET h == ModPow(b, e \div 2, m)
             s == (h * h) % m
         IN  IF e % 2 = 1 THEN (s * (b % m)) % m ELSE s

inverse_mod(a, m) == CHOOSE z \in 1..(m - 1) : (z * PyMod(a, m)) % m = 1

(* ------------------------- ecdsa.ellipticcurve ------------------------- *)
contains_point(x, y) == PyMod(y * y - ((x * x + A) * x + B), P_FIELD) = 0

PointDouble(p) ==
    LET l  == PyMod((3 * p.x * p.x + A) * inverse_mod(2 * p.y, P_FIELD), P_FIELD)
        x3 == PyMod(l * l - 2 * p.x, P_FIELD)
        y3 == PyMod(l * (p.x - x3) - p.y, P_FIELD)
    IN  [x |-> x3, y |-> y3]

\* Point.__add__
PointAdd(p, q) ==
    IF q = INFINITY THEN p
    ELSE IF p = INFINITY THEN q
    ELSE IF p.x = q.x
         THEN IF (p.y + q.y) % P_FIELD = 0 THEN INFINITY ELSE PointDouble(p)
         ELSE LET l  == PyMod((q.y - p.y) * inverse_mod(q.x - p.x, P_FIELD), P_FIELD)
                  x3 == PyMod(l * l - p.x - q.x, P_FIELD)
                  y3 == PyMod(l * (p.x - x3) - p.y, P_FIELD)
              IN  [x |-> x3, y |-> y3]

\* k * point (k >= 0): 0 * point is INFINITY
RECURSIVE PointMul(_, _)
PointMul(k, p) ==
    IF k = 0 THEN INFINITY
    ELSE LET h == PointMul(k \div 2, p)
             d == IF h = INFINITY THEN INFINITY ELSE PointAdd(h, h)
         IN  IF k % 2 = 1 THEN PointAdd(d, p) ELSE d

(* ------------------------------ hex text ------------------------------- *)
RECURSIVE HexDigits(_)
HexDigits(n) == IF n < 16 THEN <<n>> ELSE HexDigits(n \div 16) \o <<n % 16>>

Zeros(n) == [j \in 1..n |-> 0]

\* f"{n:064x}": at least HexLen digits, zero padded on the left
FormatHex(n) ==
    LET d == HexDigits(n) IN IF Len(d) >= HexLen THEN d ELSE Zeros(HexLen - Len(d)) \o d

IsHex(s) == Len(s) > 0 /\ \A j \in 1..Len(s) : s[j] \in 0..15

\* the value of the digits s[1..n]
RECURSIVE DigitsValue(_, _)
DigitsValue(s, n) == IF n = 0 THEN 0 ELSE 16 * DigitsValue(s, n - 1) + s[n]

\* int(s, 16) for a string of hex digits: leading zeros carry no value
ParseHex(s) ==
    LET nz   == {j \in 1..Len(s) : s[j] # 0}
        from == IF nz = {} THEN Len(s) + 1 ELSE CHOOSE j \in nz : \A k \in nz : j <= k
        sig  == SubSeq(s, from, Len(s))
    IN  DigitsValue(sig, Len(sig))

\* s[a:b] of Python, 0-based and half-open, clipped to the string
Slice(s, a, b) == SubSeq(s, a + 1, Min(b, Len(s)))

\* bytes.fromhex(s) for an even number of hex digits
FromHex(s) == [j \in 1..(Len(s) \div 2) |-> 16 * s[2 * j - 1] + s[2 * j]]

(* ------------------------------ key codec ------------------------------ *)
StartsWith(s, a, b) == Len(s) >= 2 /\ s[1] = a /\ s[2] = b

\* ellipticcurve.Point(CURVE, x, y, ORDER): the constructor asserts the point is on the curve
MakePoint(x, y) ==
    IF contains_point(x, y) THEN [kind |-> "point", pt |-> [x |-> x, y |-> y]]
    ELSE [kind |-> "AssertionError", pt |-> INFINITY]

\* hex_to_point with the parity test of line 73 dropped: the candidate root is
\* returned whatever the prefix
hex_to_point_NoFlip(pub_hex) ==
    IF StartsWith(pub_hex, 0, 4) THEN
        LET xs == Slice(pub_hex, 2, 66)
            ys == Slice(pub_hex, 66, Len(pub_hex))
        IN  IF IsHex(xs) /\ IsHex(ys) THEN MakePoint(ParseHex(xs), ParseHex(ys))
            ELSE [kind |-> "ValueError", pt |-> INFINITY]
    ELSE IF StartsWith(pub_hex, 0, 2) \/ StartsWith(pub_hex, 0, 3) THEN
        LET xs == Slice(pub_hex, 2, Len(pub_hex))
        IN  IF ~IsHex(xs) THEN [kind |-> "ValueError", pt |-> INFINITY]
            ELSE LET x     == ParseHex(xs)
                     alpha == (x * x * x + A * x + B) % P_FIELD
                 IN  MakePoint(x, ModPow(alpha, (P_FIELD + 1) \div 4, P_FIELD))
    ELSE [kind |-> "SystemExit", pt |-> INFINITY]

hex_to_point(pub_hex) ==
    IF StartsWith(pub_hex, 0, 4) THEN
        LET xs == Slice(pub_hex, 2, 66)
            ys == Slice(pub_hex, 66, Len(pub_hex))
        IN  IF IsHex(xs) /\ IsHex(ys) THEN MakePoint(ParseHex(xs), ParseHex(ys))
            ELSE [kind |-> "ValueError", pt |-> INFINITY]
    ELSE IF StartsWith(pub_hex, 0, 2) \/ StartsWith(pub_hex, 0, 3) THEN
        LET prefix == ParseHex(Slice(pub_hex, 0, 2))
            xs     == Slice(pub_hex, 2, Len(pub_hex))
        IN  IF ~IsHex(xs) THEN [kind |-> "ValueError", pt |-> INFINITY]
            ELSE LET x     == ParseHex(xs)
                     alpha == (x * x * x + A * x + B) % P_FIELD
                     y0    == ModPow(alpha, (P_FIELD + 1) \div 4, P_FIELD)
                     y     == IF (y0 % 2 = 0 /\ prefix = 3) \/ (y0 % 2 = 1 /\ prefix = 2)
                              THEN P_FIELD - y0 ELSE y0
                 IN  MakePoint(x, y)
    ELSE [kind |-> "SystemExit", pt |-> INFINITY]

\* raises TypeError on INFINITY, whose coordinates are None
point_to_compressed_hex(Pt) ==
    LET prefix == IF Pt.y % 2 = 0 THEN <<0, 2>> ELSE <<0, 3>>
    IN  prefix \o FormatHex(Pt.x)

(* ---------------------------- block worker ----------------------------- *)
\* one iteration of the loop of worker_block: P - i*Z*G and its text line.
\* Q.y() of INFINITY is None, so the negation raises; so does the encoding
\* of a result that is INFINITY.
\* worker_step with the offset taken as Z instead of i * Z
worker_step_FixedOffset(i, gP, gZ) ==
    LET offset == gZ
        k      == PyMod(offset, ORDER)
        Q      == PointMul(k, GEN)
    IN  IF Q = INFINITY THEN [ok |-> FALSE, pt |-> INFINITY, offset |-> offset]
        ELSE LET Q_neg == [x |-> Q.x, y |-> PyMod(-Q.y, P_FIELD)]
                 P_sub == PointAdd(gP, Q_neg)
             IN  [ok |-> P_sub # INFINITY, pt |-> P_sub, offset |-> offset]

worker_step(i, gP, gZ) ==
    LET offset == i * gZ
        k      == PyMod(offset, ORDER)
        Q      == PointMul(k, GEN)
    IN  IF Q = INFINITY THEN [ok |-> FALSE, pt |-> INFINITY, offset |-> offset]
        ELSE LET Q_neg == [x |-> Q.x, y |-> PyMod(-Q.y, P_FIELD)]
                 P_sub == PointAdd(gP, Q_neg)
             IN  [ok |-> P_sub # INFINITY, pt |-> P_sub, offset |-> offset]

TextLine(hex, sign, offset) == [hex |-> hex, sign |-> sign, offset |-> offset]

RECURSIVE Concat(_)
Concat(ss) == IF Len(ss) = 0 THEN <<>> ELSE Head(ss) \o Concat(Tail(ss))

\* worker_block that never accumulates binary data
worker_block_NoBin(i_start, i_end, g) ==
    LET n     == IF i_end > i_start THEN i_end - i_start ELSE 0
        steps == [j \in 1..n |-> worker_step(i_start + j - 1, g.P, g.Z)]
    IN  IF \E j \in 1..n : ~steps[j].ok
        THEN [ok |-> FALSE, text_lines |-> <<>>, bin_data |-> <<>>]
        ELSE LET hexes == [j \in 1..n |-> point_to_compressed_hex(steps[j].pt)]
             IN  [ok         |-> TRUE,
                  text_lines |-> [j \in 1..n |-> TextLine(hexes[j], "-", steps[j].offset)],
                  bin_data   |-> <<>>]

\* worker_block((i_start, i_end)) run with the globals g of the worker process
worker_block(i_start, i_end, g) ==
    LET n     == IF i_end > i_start THEN i_end - i_start ELSE 0
        steps == [j \in 1..n |-> worker_step(i_start + j - 1, g.P, g.Z)]
    IN  IF \E j \in 1..n : ~steps[j].ok
        THEN [ok |-> FALSE, text_lines |-> <<>>, bin_data |-> <<>>]
        ELSE LET hexes == [j \in 1..n |-> point_to_compressed_hex(steps[j].pt)]
             IN  [ok         |-> TRUE,
                  text_lines |-> [j \in 1..n |-> TextLine(hexes[j], "-", steps[j].offset)],
                  bin_data   |-> IF g.bin
                                 THEN Concat([j \in 1..n |-> FromHex(Slice(hexes[j], 2, Len(hexes[j])))])
                                 ELSE <<>>]

\* the globals of a worker process after the pool initializer has run
init_worker(P0, Z0, bin_enabled) == [P |-> P0, Z |-> Z0, bin |-> bin_enabled]

(* --------------------------- range partitioner ------------------------- *)
\* list(range(start, stop, step)) for step # 0
PyRange(start, stop, step) ==
    LET n == IF step > 0
             THEN (IF stop > start THEN (stop - start + step - 1) \div step ELSE 0)
             ELSE (IF start > stop THEN (start - stop + (-step) - 1) \div (-step) ELSE 0)
    IN  [j \in 1..n |-> start + (j - 1) * step]

\* MakeBlocks without the min(): the last block is not clamped to max_i + 1
MakeBlocks_NoClamp(max_i, block_size) ==
    LET starts == PyRange(1, max_i + 1, block_size)
    IN  [j \in 1..Len(starts) |->
            [i_start |-> starts[j], i_end |-> starts[j] + block_size]]

\* blocks = [(i, min(i+block_size, max_i+1)) for i in range(1, max_i+1, block_size)]
MakeBlocks(max_i, block_size) ==
    LET starts == PyRange(1, max_i + 1, block_size)
    IN  [j \in 1..Len(starts) |->
            [i_start |-> starts[j], i_end |-> Min(starts[j] + block_size, max_i + 1)]]

(* ------------------------------- state --------------------------------- *)
VARIABLES
    args,       \* parse_args(): pubkey, range, chunks, bin_output, cores, block_size
    pc,         \* position of main()
    exc,        \* the exception main() ended with ("" while none)
    P,          \* base point (INFINITY while unset)
    Z,          \* stride
    txt_f,      \* text sink:   [state, data], data a sequence of lines
    bin_f,      \* binary sink: [state, data], data a sequence of bytes
    blocks,     \* the block list handed to imap
    pool,       \* worker processes: [g |-> globals, job |-> block number or 0]
    taken,      \* number of tasks the workers have fetched from the task queue
    results,    \* results received by the imap iterator, by block number
    nxt,        \* block number the imap iterator yields next
    printed,    \* the counts printed by the summary
    phase,      \* 0: single run; 1, 2: first and second run of a repeated run
    ref_txt,    \* sinks of the first run of a repeated run
    ref_bin,
    codec,      \* a point taken through encode, decode, encode: [stage, pt, hex, back, hex2]
    conv        \* a run of the key file converter: [stage, file, pos, count, skip, out, stdout]

vars == <<args, pc, exc, P, Z, txt_f, bin_f, blocks, pool, taken, results, nxt,
          printed, phase, ref_txt, ref_bin, codec, conv>>

run_vars == <<pc, exc, P, Z, txt_f, bin_f, blocks, pool, taken, results, nxt, printed>>

(* ------------------------------- inputs -------------------------------- *)
Uncompressed(pt) == <<0, 4>> \o FormatHex(pt.x) \o FormatHex(pt.y)

WellFormedKeys ==
    {point_to_compressed_hex(PointMul(n, GEN)) : n \in (1..MaxKey) \cup {ORDER - 1}}
        \cup {Uncompressed(GEN)}

MalformedKeys ==
    { <<>>,                                               \* empty
      <<0, 5>> \o FormatHex(GEN.x),                       \* prefix 05
      <<0, 2>> \o HexDigits(GEN.x),                       \* 02 and a short x
      <<0, 3, 0>> \o FormatHex(GEN.x),                    \* 03 and 65 digits
      <<0, 2, 16>>,                                       \* not hex
      <<0, 2>> \o FormatHex(1),                           \* x with no point on the curve
      <<0, 4>> \o FormatHex(GEN.x),                       \* 04 and no y
      <<0, 4>> \o FormatHex(GEN.x) \o HexDigits(GEN.y) }  \* 04 and a short y

PubkeyInputs == WellFormedKeys \cup MalformedKeys

\* --range: an expression eval() rejects, or one with an integer value
RangeInputs ==
    {[ok |-> FALSE, val |-> 0]} \cup
    {[ok |-> TRUE, val |-> v] : v \in (-1..MaxRange) \cup {2 * ORDER}}

ArgsInputs ==
    [pubkey     : PubkeyInputs,
     range      : RangeInputs,
     chunks     : -2..MaxChunks,
     bin_output : BOOLEAN,
     cores      : 0..MaxCores,
     block_size : -1..MaxBlock]

Unopened == [state |-> "unopened", data |-> <<>>]

RunInit ==
    /\ pc = "decode"
    /\ exc = ""
    /\ P = INFINITY
    /\ Z = 0
    /\ txt_f = Unopened
    /\ bin_f = Unopened
    /\ blocks = <<>>
    /\ pool = <<>>
    /\ taken = 0
    /\ results = <<>>
    /\ nxt = 1
    /\ printed = <<>>

NoDecode == [kind |-> "", pt |-> INFINITY]

CodecOff == [stage |-> "off", pt |-> INFINITY, hex |-> <<>>, back |-> NoDecode, hex2 |-> <<>>]

ConvOff == [stage |-> "off", file |-> <<>>, pos |-> 1, count |-> 0, skip |-> 0,
            out |-> <<>>, stdout |-> <<>>]

Init ==
    /\ args \in ArgsInputs
    /\ RunInit
    /\ phase = 0
    /\ ref_txt = Unopened
    /\ ref_bin = Unopened
    /\ codec = CodecOff
    /\ conv = ConvOff

(* ------------------------------- main() -------------------------------- *)
Raise(e) == pc' = "raised" /\ exc' = e

\* line 115: P = hex_to_point(args.pubkey)
Decode ==
    /\ pc = "decode"
    /\ LET r == hex_to_point(args.pubkey)
       IN  IF r.kind = "point"
           THEN pc' = "eval" /\ P' = r.pt /\ exc' = exc
           ELSE Raise(r.kind) /\ P' = P
    /\ UNCHANGED <<args, Z, txt_f, bin_f, blocks, pool, taken, results, nxt, printed,
                   phase, ref_txt, ref_bin, codec, conv>>

\* line 116: X = eval(args.range, {}, {})
EvalRange ==
    /\ pc = "eval"
    /\ IF args.range.ok THEN pc' = "check" /\ exc' = exc ELSE Raise("SyntaxError")
    /\ UNCHANGED <<args, P, Z, txt_f, bin_f, blocks, pool, taken, results, nxt, printed,
                   phase, ref_txt, ref_bin, codec, conv>>

\* CheckChunks with the text sink opened before the parity test
CheckChunks_OpenFirst ==
    /\ pc = "check"
    /\ txt_f' = [state |-> "open", data |-> <<>>]
    /\ IF args.chunks % 2 # 0 THEN Raise("SystemExit") /\ Z' = Z
       ELSE IF args.chunks = 0 THEN Raise("ZeroDivisionError") /\ Z' = Z
       ELSE /\ Z' = PyFloorDiv(args.range.val, args.chunks)
            /\ pc' = "open"
            /\ exc' = exc
    /\ UNCHANGED <<args, P, bin_f, blocks, pool, taken, results, nxt, printed,
                   phase, ref_txt, ref_bin, codec, conv>>

\* lines 117-121: Y must be even; Z = X // Y
CheckChunks ==
    /\ pc = "check"
    /\ IF args.chunks % 2 # 0 THEN Raise("SystemExit") /\ Z' = Z
       ELSE IF args.chunks = 0 THEN Raise("ZeroDivisionError") /\ Z' = Z
       ELSE /\ Z' = PyFloorDiv(args.range.val, args.chunks)
            /\ pc' = "open"
            /\ exc' = exc
    /\ UNCHANGED <<args, P, txt_f, bin_f, blocks, pool, taken, results, nxt, printed,
                   phase, ref_txt, ref_bin, codec, conv>>

\* lines 123-124: open the sinks
OpenSinks ==
    /\ pc = "open"
    /\ txt_f' = [state |-> "open", data |-> <<>>]
    /\ bin_f' = IF args.bin_output THEN [state |-> "open", data |-> <<>>] ELSE bin_f
    /\ pc' = "header"
    /\ UNCHANGED <<args, exc, P, Z, blocks, pool, taken, results, nxt, printed,
                   phase, ref_txt, ref_bin, codec, conv>>

\* WriteHeader with the header left out of both sinks
WriteHeader_Skip ==
    /\ pc = "header"
    /\ pc' = "blocks"
    /\ UNCHANGED <<args, exc, P, Z, txt_f, bin_f, blocks, pool, taken, results, nxt,
                   printed, phase, ref_txt, ref_bin, codec, conv>>

\* lines 126-128: the header record, offset 0
WriteHeader ==
    /\ pc = "header"
    /\ LET hex == point_to_compressed_hex(P)
       IN  /\ txt_f' = [txt_f EXCEPT !.data = Append(@, TextLine(hex, "", 0))]
           /\ bin_f' = IF args.bin_output
                       THEN [bin_f EXCEPT !.data = @ \o FromHex(Slice(hex, 2, Len(hex)))]
                       ELSE bin_f
    /\ pc' = "blocks"
    /\ UNCHANGED <<args, exc, P, Z, blocks, pool, taken, results, nxt, printed,
                   phase, ref_txt, ref_bin, codec, conv>>

\* lines 130-131: range() raises ValueError for a step of 0
PrepareBlocks ==
    /\ pc = "blocks"
    /\ IF args.block_size = 0 THEN Raise("ValueError") /\ blocks' = blocks
       ELSE /\ blocks' = MakeBlocks(args.chunks, args.block_size)
            /\ pc' = "pool"
            /\ exc' = exc
    /\ UNCHANGED <<args, P, Z, txt_f, bin_f, pool, taken, results, nxt, printed,
                   phase, ref_txt, ref_bin, codec, conv>>

\* line 133: Pool(processes, initializer=init_worker, initargs=(P, Z, bool(bin_output)));
\* Pool raises ValueError for fewer than one process
LaunchPool ==
    /\ pc = "pool"
    /\ IF args.cores < 1 THEN Raise("ValueError") /\ pool' = pool
       ELSE /\ pool' = [w \in 1..args.cores |->
                            [g |-> init_worker(P, Z, args.bin_output), job |-> 0]]
            /\ pc' = "loop"
            /\ exc' = exc
    /\ UNCHANGED <<args, P, Z, txt_f, bin_f, blocks, taken, results, nxt, printed,
                   phase, ref_txt, ref_bin, codec, conv>>

\* an idle worker fetches the next task of the queue imap filled in list order
WorkerFetch(w) ==
    /\ pc = "loop"
    /\ w \in 1..Len(pool)
    /\ pool[w].job = 0
    /\ taken < Len(blocks)
    /\ taken' = taken + 1
    /\ pool' = [pool EXCEPT ![w].job = taken + 1]
    /\ UNCHANGED <<args, pc, exc, P, Z, txt_f, bin_f, blocks, results, nxt, printed,
                   phase, ref_txt, ref_bin, codec, conv>>

\* WorkerFinish with the worker appending its batch to the sinks itself
WorkerFinish_WritesSink(w) ==
    /\ pc = "loop"
    /\ w \in 1..Len(pool)
    /\ pool[w].job # 0
    /\ LET b == pool[w].job
           r == worker_block(blocks[b].i_start, blocks[b].i_end, pool[w].g)
       IN  /\ results' = [k \in DOMAIN results \cup {b} |-> IF k = b THEN r ELSE results[k]]
           /\ txt_f' = [txt_f EXCEPT !.data = @ \o r.text_lines]
           /\ bin_f' = IF args.bin_output
                       THEN [bin_f EXCEPT !.data = @ \o r.bin_data]
                       ELSE bin_f
    /\ pool' = [pool EXCEPT ![w].job = 0]
    /\ UNCHANGED <<args, pc, exc, P, Z, blocks, taken, nxt, printed,
                   phase, ref_txt, ref_bin, codec, conv>>

\* WorkerFinish with the block computation advancing the worker's global Z
WorkerFinish_MovesZ(w) ==
    /\ pc = "loop"
    /\ w \in 1..Len(pool)
    /\ pool[w].job # 0
    /\ LET b == pool[w].job
           r == worker_block(blocks[b].i_start, blocks[b].i_end, pool[w].g)
       IN  results' = [k \in DOMAIN results \cup {b} |-> IF k = b THEN r ELSE results[k]]
    /\ pool' = [pool EXCEPT ![w].job = 0, ![w].g.Z = @ + 1]
    /\ UNCHANGED <<args, pc, exc, P, Z, txt_f, bin_f, blocks, taken, nxt, printed,
                   phase, ref_txt, ref_bin, codec, conv>>

\* the worker runs worker_block on its task and sends the result (or the
\* exception) back; finishing order is free
WorkerFinish(w) ==
    /\ pc = "loop"
    /\ w \in 1..Len(pool)
    /\ pool[w].job # 0
    /\ LET b == pool[w].job
           r == worker_block(blocks[b].i_start, blocks[b].i_end, pool[w].g)
       IN  results' = [k \in DOMAIN results \cup {b} |-> IF k = b THEN r ELSE results[k]]
    /\ pool' = [pool EXCEPT ![w].job = 0]
    /\ UNCHANGED <<args, pc, exc, P, Z, txt_f, bin_f, blocks, taken, nxt, printed,
                   phase, ref_txt, ref_bin, codec, conv>>

CloseSinks ==
    /\ txt_f' = [txt_f EXCEPT !.state = "closed"]
    /\ bin_f' = IF args.bin_output THEN [bin_f EXCEPT !.state = "closed"] ELSE bin_f

\* imap replaced by imap_unordered: the loop receives the latest block that
\* has finished, whatever its place in the list
NextResult_Latest ==
    LET avail == {k \in DOMAIN results : k >= nxt}
    IN  IF avail = {} THEN nxt ELSE CHOOSE k \in avail : \A j \in avail : j <= k

\* the block whose result the for loop of lines 135-138 receives next
NextResult == nxt

\* Consume with the exception of a failed block swallowed: the loop goes on
\* with the next block
Consume_SkipFailed ==
    /\ pc = "loop"
    /\ nxt <= Len(blocks)
    /\ NextResult \in DOMAIN results
    /\ LET r == results[NextResult]
       IN  /\ txt_f' = [txt_f EXCEPT !.data = @ \o r.text_lines]
           /\ bin_f' = IF args.bin_output
                       THEN [bin_f EXCEPT !.data = @ \o r.bin_data]
                       ELSE bin_f
    /\ nxt' = nxt + 1
    /\ UNCHANGED <<args, pc, exc, P, Z, blocks, pool, taken, results, printed,
                   phase, ref_txt, ref_bin, codec, conv>>

\* lines 135-138: one iteration of the for loop over pool.imap(worker_block, blocks);
\* a block that raised re-raises here and the finally clause closes the sinks
Consume ==
    /\ pc = "loop"
    /\ nxt <= Len(blocks)
    /\ NextResult \in DOMAIN results
    /\ LET r == results[NextResult]
       IN  IF r.ok
           THEN /\ txt_f' = [txt_f EXCEPT !.data = @ \o r.text_lines]
                /\ bin_f' = IF args.bin_output
                            THEN [bin_f EXCEPT !.data = @ \o r.bin_data]
                            ELSE bin_f
                /\ nxt' = nxt + 1
                /\ UNCHANGED <<pc, exc>>
           ELSE /\ CloseSinks
                /\ Raise("TypeError")
                /\ nxt' = nxt
    /\ UNCHANGED <<args, P, Z, blocks, pool, taken, results, printed,
                   phase, ref_txt, ref_bin, codec, conv>>

\* lines 139-144: the iterator is exhausted; pool.close(), pool.join(), finally
Finalize ==
    /\ pc = "loop"
    /\ nxt > Len(blocks)
    /\ CloseSinks
    /\ pc' = "summary"
    /\ UNCHANGED <<args, exc, P, Z, blocks, pool, taken, results, nxt, printed,
                   phase, ref_txt, ref_bin, codec, conv>>

\* lines 145-147: the summary
Report ==
    /\ pc = "summary"
    /\ printed' = IF args.bin_output THEN <<1 + args.chunks, 1 + args.chunks>>
                                     ELSE <<1 + args.chunks>>
    /\ pc' = "done"
    /\ UNCHANGED <<args, exc, P, Z, txt_f, bin_f, blocks, pool, taken, results, nxt,
                   phase, ref_txt, ref_bin, codec, conv>>

Next ==
    \/ Decode
    \/ EvalRange
    \/ CheckChunks
    \/ OpenSinks
    \/ WriteHeader
    \/ PrepareBlocks
    \/ LaunchPool
    \/ \E w \in 1..MaxCores : WorkerFetch(w)
    \/ \E w \in 1..MaxCores : WorkerFinish(w)
    \/ Consume
    \/ Finalize
    \/ Report

Spec == Init /\ [][Next]_vars

(* ------------------- the same inputs run a second time ------------------ *)
Terminated == pc \in {"done", "raised"}

InitTwice ==
    /\ args \in ArgsInputs
    /\ args.cores = 1
    /\ RunInit
    /\ phase = 1
    /\ ref_txt = Unopened
    /\ ref_bin = Unopened
    /\ codec = CodecOff
    /\ conv = ConvOff

\* the first run (one worker) has ended: keep its sinks and run the same
\* command line again with any number of workers
Rerun ==
    /\ phase = 1
    /\ Terminated
    /\ phase' = 2
    /\ ref_txt' = txt_f
    /\ ref_bin' = bin_f
    /\ \E c \in 1..MaxCores : args' = [args EXCEPT !.cores = c]
    /\ pc' = "decode"
    /\ exc' = ""
    /\ P' = INFINITY
    /\ Z' = 0
    /\ txt_f' = Unopened
    /\ bin_f' = Unopened
    /\ blocks' = <<>>
    /\ pool' = <<>>
    /\ taken' = 0
    /\ results' = <<>>
    /\ nxt' = 1
    /\ printed' = <<>>
    /\ UNCHANGED <<codec, conv>>

NextTwice == Next \/ Rerun

SpecTwice == InitTwice /\ [][NextTwice]_vars

(* ------------------- the key codec applied to curve points -------------- *)
\* the finite points of the curve
CurvePoints ==
    {pt \in [x : 0..(P_FIELD - 1), y : 0..(P_FIELD - 1)] : contains_point(pt.x, pt.y)}

InitCodec ==
    /\ args = [pubkey |-> <<>>, range |-> [ok |-> FALSE, val |-> 0], chunks |-> 0,
               bin_output |-> FALSE, cores |-> 0, block_size |-> 0]
    /\ RunInit
    /\ phase = 0
    /\ ref_txt = Unopened
    /\ ref_bin = Unopened
    /\ \E pt \in CurvePoints : codec = [CodecOff EXCEPT !.stage = "point", !.pt = pt]
    /\ conv = ConvOff

CodecEncode ==
    /\ codec.stage = "point"
    /\ codec' = [codec EXCEPT !.stage = "encoded", !.hex = point_to_compressed_hex(codec.pt)]
    /\ UNCHANGED <<args, run_vars, phase, ref_txt, ref_bin, conv>>

CodecDecode ==
    /\ codec.stage = "encoded"
    /\ codec' = [codec EXCEPT !.stage = "decoded", !.back = hex_to_point(codec.hex)]
    /\ UNCHANGED <<args, run_vars, phase, ref_txt, ref_bin, conv>>

CodecReencode ==
    /\ codec.stage = "decoded"
    /\ codec.back.kind = "point"
    /\ codec' = [codec EXCEPT !.stage = "reencoded",
                              !.hex2 = point_to_compressed_hex(codec.back.pt)]
    /\ UNCHANGED <<args, run_vars, phase, ref_txt, ref_bin, conv>>

NextCodec == CodecEncode \/ CodecDecode \/ CodecReencode

SpecCodec == InitCodec /\ [][NextCodec]_vars

(* ------------- pubkey_to_xpoint_fix.py: key lines to raw X -------------- *)
\* characters of a line: 0..15 are the hex digits, and
NonHexChar == 16        \* a character that is neither a hex digit, '#' nor a blank
HashChar   == 17        \* '#'
SpaceChar  == 18        \* a blank

\* s.strip()
Strip(s) ==
    LET ns == {i \in 1..Len(s) : s[i] # SpaceChar}
    IN  IF ns = {} THEN <<>>
        ELSE SubSeq(s, CHOOSE i \in ns : \A j \in ns : i <= j,
                       CHOOSE i \in ns : \A j \in ns : i >= j)

\* s.split('#')[0]
BeforeHash(s) ==
    LET hs == {i \in 1..Len(s) : s[i] = HashChar}
    IN  IF hs = {} THEN s
        ELSE SubSeq(s, 1, (CHOOSE i \in hs : \A j \in hs : i <= j) - 1)

\* line 9: the key part of a line
KeyPart(line) == Strip(BeforeHash(Strip(line)))

\* bytes.fromhex(s): blanks are skipped before each byte, a byte is two
\* adjacent hex digits; anything else raises ValueError
BytesFromHex(s) ==
    LET ns      == {i \in 1..Len(s) : s[i] # SpaceChar}
        rank(i) == Cardinality({j \in ns : j <= i})
        at(r)   == CHOOSE i \in ns : rank(i) = r
        ok      == \A i \in ns : /\ s[i] \in 0..15
                                 /\ rank(i) % 2 = 1 => (i + 1) \in ns
    IN  IF ok
        THEN [ok |-> TRUE,
              bytes |-> [b \in 1..(Cardinality(ns) \div 2) |->
                            16 * s[at(2 * b - 1)] + s[at(2 * b)]]]
        ELSE [ok |-> FALSE, bytes |-> <<>>]

\* lines 9-29: what one line of the input does
ConvertLine(line) ==
    LET key == KeyPart(line)
        x   == IF Len(key) = 66 THEN Slice(key, 2, Len(key))
               ELSE IF Len(key) = 130 THEN Slice(key, 2, 66)
               ELSE key
    IN  IF key = <<>> THEN [verdict |-> "blank", x |-> key, bytes |-> <<>>]
        ELSE IF Len(key) \notin {64, 66, 130}
        THEN [verdict |-> "skipped pubkey", x |-> key, bytes |-> <<>>]
        ELSE IF BytesFromHex(x).ok
        THEN [verdict |-> "written", x |-> x, bytes |-> BytesFromHex(x).bytes]
        ELSE [verdict |-> "skipped invalid hex", x |-> x, bytes |-> <<>>]

\* lines of a key file
LineInputs ==
    LET X == FormatHex(GEN.x)
        Y == FormatHex(GEN.y)
    IN  { X,                                              \* 64: a raw X
          <<0, 2>> \o X,                                  \* 66: compressed
          <<0, 4>> \o X \o Y,                             \* 130: uncompressed
          <<0, 3>> \o X \o <<SpaceChar, SpaceChar, HashChar, SpaceChar, NonHexChar, 1>>,
                                                          \* a line of the generator: key  # -1
          <<>>,                                           \* empty line
          <<SpaceChar, HashChar, NonHexChar>>,            \* comment alone
          <<0, 2>> \o HexDigits(GEN.x),                   \* short key
          <<NonHexChar>> \o Tail(X),                      \* 64 with a non-hex character
          <<0, 4>> \o X \o [j \in 1..64 |-> NonHexChar],  \* 130 with a non-hex Y
          <<NonHexChar, NonHexChar>> \o X,                \* 66 with a non-hex prefix
          <<1, 2, SpaceChar, SpaceChar>> \o SubSeq(X, 5, 64),  \* 64 with blanks between bytes
          <<1, SpaceChar>> \o SubSeq(X, 3, 64) }          \* 64 with a blank inside a byte

KeyFiles == UNION {[1..n -> LineInputs] : n \in 0..MaxLines}

InitConv ==
    /\ args = [pubkey |-> <<>>, range |-> [ok |-> FALSE, val |-> 0], chunks |-> 0,
               bin_output |-> FALSE, cores |-> 0, block_size |-> 0]
    /\ RunInit
    /\ phase = 0
    /\ ref_txt = Unopened
    /\ ref_bin = Unopened
    /\ codec = CodecOff
    /\ \E f \in KeyFiles : conv = [ConvOff EXCEPT !.stage = "read", !.file = f]

\* lines 7-29: one iteration of the loop over the input lines
ConvLine ==
    /\ conv.stage = "read"
    /\ conv.pos <= Len(conv.file)
    /\ LET r == ConvertLine(conv.file[conv.pos])
       IN  conv' = [conv EXCEPT
                       !.pos    = @ + 1,
                       !.count  = IF r.verdict = "written" THEN @ + 1 ELSE @,
                       !.skip   = IF r.verdict \in {"skipped pubkey", "skipped invalid hex"}
                                  THEN @ + 1 ELSE @,
                       !.out    = @ \o r.bytes,
                       !.stdout = IF r.verdict \in {"skipped pubkey", "skipped invalid hex"}
                                  THEN Append(@, <<r.verdict, r.x>>) ELSE @]
    /\ UNCHANGED <<args, run_vars, phase, ref_txt, ref_bin, codec>>

\* line 31: the input is exhausted; the totals are printed and the files closed
ConvReport ==
    /\ conv.stage = "read"
    /\ conv.pos > Len(conv.file)
    /\ conv' = [conv EXCEPT !.stage  = "done",
                            !.stdout = Append(@, <<"processed", conv.count, conv.skip>>)]
    /\ UNCHANGED <<args, run_vars, phase, ref_txt, ref_bin, codec>>

NextConv == ConvLine \/ ConvReport

SpecConv == InitConv /\ [][NextConv]_vars

(* ============================== properties ============================== *)
BlockLen(b) == IF b.i_end > b.i_start THEN b.i_end - b.i_start ELSE 0

\* number of indices in the first n blocks
RECURSIVE IndicesIn(_)
IndicesIn(n) == IF n = 0 THEN 0 ELSE IndicesIn(n - 1) + BlockLen(blocks[n])

HeaderLine == TextLine(point_to_compressed_hex(P), "", 0)

\* the text line and X bytes of index i, from the base point and stride of the run
LineOf(i) ==
    LET s == worker_step(i, P, Z)
    IN  TextLine(point_to_compressed_hex(s.pt), "-", s.offset)

XBytes(hex) == FromHex(Slice(hex, 2, Len(hex)))

\* C1: whatever the worker count and the order in which blocks finish, each
\* sink holds the header followed by the records of the indices 1..m in
\* ascending order, without gap or duplicate, where m is the number of indices
\* of the blocks the loop has received so far (the blocks before nxt): a block
\* is written only after every earlier block; nothing precedes the header.
C1_OrderedAppend ==
    LET m     == IndicesIn(nxt - 1)
        lines == <<HeaderLine>> \o [j \in 1..m |-> LineOf(j)]
    IN  /\ txt_f.data = <<>> => nxt = 1 /\ bin_f.data = <<>>
        /\ txt_f.data # <<>> =>
              /\ txt_f.data = lines
              /\ bin_f.data = IF args.bin_output
                               THEN Concat([j \in 1..Len(lines) |-> XBytes(lines[j].hex)])
                               ELSE <<>>

\* block 1 is written, block 3 has finished before block 2 and waits
C1_Witness ==
    /\ pc = "loop"
    /\ nxt = 2
    /\ Len(txt_f.data) = 1 + BlockLen(blocks[1])
    /\ 3 \in DOMAIN results
    /\ 2 \notin DOMAIN results
    /\ results[3].ok

\* C2: the same command line run with one worker and then with any number of
\* workers, under any finishing order, ends with the same text sink and the
\* same binary sink.
C2_WorkerCountInvariant ==
    (phase = 2 /\ Terminated) => txt_f.data = ref_txt.data /\ bin_f.data = ref_bin.data

\* a second run with two workers and at least three blocks has completed
C2_Witness ==
    /\ phase = 2
    /\ pc = "done"
    /\ args.cores = 2
    /\ args.bin_output
    /\ Len(blocks) >= 3
    /\ Len(txt_f.data) = 1 + args.chunks
    /\ ref_txt.state = "closed"

BlocksBuilt == pc \in {"pool", "loop", "summary", "done"}

\* the indices a block list covers
Covered == UNION {blocks[j].i_start .. (blocks[j].i_end - 1) : j \in 1..Len(blocks)}

IsPartition(Y, bs) ==
    /\ \A j \in 1..Len(blocks) :
          /\ blocks[j].i_start = 1 + (j - 1) * bs
          /\ blocks[j].i_end = Min(blocks[j].i_start + bs, Y + 1)
          /\ blocks[j].i_start < blocks[j].i_end
          /\ blocks[j].i_end - blocks[j].i_start <= bs
    /\ \A j \in 1..(Len(blocks) - 1) : blocks[j + 1].i_start = blocks[j].i_end
    /\ \A j, k \in 1..Len(blocks) :
          j # k => (blocks[j].i_start .. (blocks[j].i_end - 1))
                     \cap (blocks[k].i_start .. (blocks[k].i_end - 1)) = {}
    /\ Covered = 1..Y

C4_RecordCount ==
    pc = "done" =>
        /\ Len(txt_f.data) = args.chunks + 1
        /\ txt_f.data[1] = HeaderLine
        /\ printed[1] = Len(txt_f.data)

Offsets == [j \in 1..Len(txt_f.data) |-> txt_f.data[j].offset]

Increasing(s) == \A j \in 1..(Len(s) - 1) : s[j] < s[j + 1]

\* the record after the header at position j + 1 carries j * floor(X / Y)
OffsetsAreMultiples ==
    \A j \in 1..Len(txt_f.data) :
        Offsets[j] = (j - 1) * PyFloorDiv(args.range.val, args.chunks)

\* C5, as stated: for all inputs that pass validation the offsets in the text
\* sink are strictly increasing from one record to the next.
C5_Original == Increasing(Offsets)

\* C5, amended: the header carries offset 0 and the record of index i carries
\* i * Z with Z = floor(TotalRange / ChunkCount); when Z >= 1 the offsets are
\* strictly increasing from one record to the next.
C5_OffsetsIncrease ==
    /\ OffsetsAreMultiples
    /\ (txt_f.data # <<>> /\ Z >= 1) => Increasing(Offsets)

\* a completed run of four indices with a positive stride
C5_Witness ==
    /\ pc = "done"
    /\ Z >= 1
    /\ Len(txt_f.data) = 5

\* C6: after a run with binary output that completes normally the binary sink
\* is 32 * (ChunkCount + 1) bytes long: the X of P, then one X per index.
C6_BinaryLength ==
    (pc = "done" /\ args.bin_output) => Len(bin_f.data) = 32 * (args.chunks + 1)

\* n with pt = n * G (0 for INFINITY)
DLog(pt) == CHOOSE n \in 0..(ORDER - 1) : PointMul(n, GEN) = pt

\* P - i*Z*G in the curve group
GroupSub(pt, i, stride) == PointMul(PyMod(DLog(pt) - i * stride, ORDER), GEN)

\* C7: every block a worker has finished holds a record for each of its
\* indices i, and the point of that record is P - i*Z*G, also where
\* (i*Z) mod order is 0 or i*Z*G is P.
C7_EveryIndexEmitted ==
    \A b \in DOMAIN results :
        /\ results[b].ok
        /\ Len(results[b].text_lines) = BlockLen(blocks[b])
        /\ \A j \in 1..BlockLen(blocks[b]) :
              LET i == blocks[b].i_start + j - 1
              IN  /\ GroupSub(P, i, Z) # INFINITY
                  /\ results[b].text_lines[j].hex = point_to_compressed_hex(GroupSub(P, i, Z))

ValidationError == pc = "raised" /\ exc \in {"SystemExit", "SyntaxError"}

\* C8: a run that ends with a validation error (key prefix, odd chunk count,
\* unparseable range) has opened and written no sink.
C8_NoSinkOnValidationError == ValidationError => txt_f = Unopened /\ bin_f = Unopened

\* a key that decodes, a range that evaluates, and an odd chunk count
C8_Witness ==
    /\ ValidationError
    /\ P # INFINITY
    /\ args.range.ok
    /\ args.chunks % 2 = 1
    /\ args.bin_output

WellFormedKey(s) ==
    /\ \A j \in 1..Len(s) : s[j] \in 0..15
    /\ \/ StartsWith(s, 0, 4) /\ Len(s) = 2 + 64 + 64
       \/ (StartsWith(s, 0, 2) \/ StartsWith(s, 0, 3)) /\ Len(s) = 2 + 64

\* C9: decode yields a point only for 04 and 64+64 hex digits or 02/03 and 64
\* hex digits; every other prefix or length ends the run with an input error.
C9_DecodeOnlyWellFormed ==
    /\ P # INFINITY => WellFormedKey(args.pubkey)
    /\ (pc # "decode" /\ ~WellFormedKey(args.pubkey)) => pc = "raised" /\ P = INFINITY

\* C10: for every finite curve point, decoding its compressed encoding yields
\* a point whose y has the parity the prefix names (02 even, 03 odd), and
\* encoding that point again gives the same prefix and the same 64 digits.
C10_RoundTrip ==
    /\ codec.stage \in {"decoded", "reencoded"} =>
          /\ codec.back.kind = "point"
          /\ codec.back.pt.y % 2 = (IF codec.hex[2] = 2 THEN 0 ELSE 1)
    /\ codec.stage = "reencoded" =>
          /\ codec.hex2 = codec.hex
          /\ Len(codec.hex2) = 2 + 64

\* a point with odd y whose candidate root alpha^((p+1)/4) had to be flipped
C10_Witness ==
    /\ codec.stage = "reencoded"
    /\ codec.hex[2] = 3
    /\ codec.pt.y % 2 = 1
    /\ ModPow((codec.pt.x * codec.pt.x * codec.pt.x + B) % P_FIELD,
              (P_FIELD + 1) \div 4, P_FIELD) # codec.pt.y


PoolStarted == pool # <<>> \/ taken > 0 \/ results # <<>> \/ nxt > 1

\* C11: the header record of P, offset 0, is in the text sink, and in the
\* binary sink when enabled, before any block is dispatched to or processed
\* by a worker: whenever the pool exists, a block has been fetched, finished or
\* written, each sink begins with the header.
C11_HeaderFirst ==
    PoolStarted =>
        /\ Len(txt_f.data) >= 1
        /\ txt_f.data[1] = HeaderLine
        /\ args.bin_output =>
              /\ Len(bin_f.data) >= 32
              /\ SubSeq(bin_f.data, 1, 32) = XBytes(HeaderLine.hex)

\* a worker has fetched the first block while the sinks hold the header alone
C11_Witness ==
    /\ pc = "loop"
    /\ taken = 1
    /\ results = <<>>
    /\ args.bin_output
    /\ txt_f.data = <<HeaderLine>>
    /\ bin_f.data = XBytes(HeaderLine.hex)

Failed == {k \in DOMAIN results : ~results[k].ok}

Aborted == pc = "raised" /\ exc = "TypeError"

\* the sinks hold the header and exactly the records of the first n blocks
SinksHoldBlocks(n) ==
    LET lines == <<HeaderLine>> \o [j \in 1..IndicesIn(n) |-> LineOf(j)]
    IN  /\ txt_f.data = lines
        /\ args.bin_output =>
              bin_f.data = Concat([j \in 1..Len(lines) |-> XBytes(lines[j].hex)])

\* C12, as stated: for every block k whose worker raised, the run that has
\* ended holds in its sinks the header plus exactly the blocks submitted
\* before k.
C12_Original == \A k \in Failed : Terminated => SinksHoldBlocks(k - 1)

\* C12, amended: with k the first block in submission order whose worker
\* raised, nothing of block k or of a later block is ever appended, no
\* summary is printed and block k is not computed again; the run that has
\* aborted holds the header plus exactly the blocks before k, and has closed
\* every sink it opened.
C12_AbortOnWorkerError ==
    /\ Failed # {} =>
          LET k == CHOOSE f \in Failed : \A g \in Failed : f <= g
          IN  /\ nxt <= k
              /\ pc \in {"loop", "raised"}
              /\ printed = <<>>
              /\ \A w \in 1..Len(pool) : pool[w].job # k
              /\ Len(txt_f.data) <= 1 + IndicesIn(k - 1)
              /\ Aborted => nxt = k /\ SinksHoldBlocks(k - 1)
    /\ Aborted =>
          /\ nxt \in Failed
          /\ txt_f.state = "closed"
          /\ args.bin_output => bin_f.state = "closed"

\* the second block raised after the first was written, and a later block
\* that finished without error stays unwritten
C12_Witness ==
    /\ Aborted
    /\ nxt = 2
    /\ args.bin_output
    /\ 3 \in DOMAIN results
    /\ results[3].ok
    /\ Len(txt_f.data) = 1 + BlockLen(blocks[1])


\* validation is over once the sinks have been opened
PassedValidation == txt_f.state # "unopened"

TerminalState ==
    /\ pc = "done"
    /\ nxt > Len(blocks)
    /\ txt_f.state = "closed"
    /\ args.bin_output => bin_f.state = "closed"
    /\ printed # <<>>

\* C13: when no dispatched block raises, a run that has passed validation
\* reaches the terminal state (all blocks consumed, sinks closed, record count
\* reported): it never stops anywhere else, so the only state in which such a
\* run has ended is the terminal state.
C13_EndsInTerminalState ==
    (PassedValidation /\ Failed = {} /\ Terminated) => TerminalState


\* a worker has fetched block k and has not returned it
Running(k) == \E w \in 1..Len(pool) : pool[w].job = k

\* C14: while the worker computing block k has not finished, the parent is at
\* block k or before it: the run has not ended, no sink is closed, and no
\* block after k is written.
C14_BlockedAtUnfinished ==
    \A k \in 1..Len(blocks) :
        Running(k) =>
            /\ nxt <= k
            /\ ~Terminated
            /\ txt_f.state = "open"
            /\ args.bin_output => bin_f.state = "open"


\* C15: the sinks have one writer, the parent: a step that appends to (or
\* opens, or closes) the text or the binary sink is never a step of a worker,
\* which only takes a task or returns its batch.
C15_SingleWriter ==
    [][(txt_f' # txt_f \/ bin_f' # bin_f) =>
           (pool' = pool /\ results' = results /\ taken' = taken)]_vars

\* both workers have returned a batch and the sinks still hold the header alone
C15_Witness ==
    /\ pc = "loop"
    /\ nxt = 1
    /\ {1, 2} \subseteq DOMAIN results
    /\ results[1].ok /\ results[2].ok
    /\ args.bin_output
    /\ txt_f.data = <<HeaderLine>>
    /\ Len(bin_f.data) = 32

\* block results computed and not yet written
Unwritten == {k \in DOMAIN results : k >= nxt}

\* C16: the number of block results computed and not yet written is bounded
\* by a constant that does not grow with the number of blocks: the number of
\* worker processes.
C16_BoundedBuffer == Cardinality(Unwritten) <= args.cores

\* the configuration the parent computed at start
DriverConfig == [P |-> P, Z |-> Z, bin |-> args.bin_output]

\* C17: every worker of the pool holds the P, Z and binary flag the parent
\* computed at start, before and after each block it computes, so every
\* block is computed with that configuration.
C17_WorkerConfigFixed == \A w \in 1..Len(pool) : pool[w].g = DriverConfig

\* a worker that has returned a block holds its next one
C17_Witness ==
    /\ pc = "loop"
    /\ args.bin_output
    /\ Z >= 1
    /\ \E w \in 1..Len(pool) : pool[w].job = 2
    /\ 1 \in DOMAIN results
    /\ results[1].ok
    /\ Len(pool) = 1

\* C19: with binary output enabled the binary sink holds one 32-byte entry
\* per text line, entry j being the X-coordinate of the point on text line j;
\* with binary output disabled no block result carries binary data and the
\* binary sink is never opened or written.
C19_BinaryMirrorsText ==
    IF args.bin_output
    THEN /\ Len(bin_f.data) = 32 * Len(txt_f.data)
         /\ \A j \in 1..Len(txt_f.data) :
               SubSeq(bin_f.data, 32 * (j - 1) + 1, 32 * j) = XBytes(txt_f.data[j].hex)
    ELSE /\ bin_f = Unopened
         /\ \A b \in DOMAIN results : results[b].bin_data = <<>>

\* a run with binary output has written the header and two blocks
C19_Witness ==
    /\ args.bin_output
    /\ nxt = 3
    /\ Len(txt_f.data) >= 4
    /\ Len(bin_f.data) = 32 * Len(txt_f.data)


\* the key parts of the lines read so far that are not empty
KeysRead == {j \in 1..(conv.pos - 1) : KeyPart(conv.file[j]) # <<>>}

\* a key part that has a length other than 64, 66 or 130 or is not all hex digits
Malformed(key) == Len(key) \notin {64, 66, 130} \/ ~IsHex(key)

\* C18: every line read whose key part is non-empty and malformed has been
\* skipped and has written nothing (the skip counter is the number of such
\* lines, the output holds the well-formed lines alone), and processed +
\* skipped is the number of lines with a non-empty key part.
C18_MalformedSkipped ==
    conv.stage # "off" =>
        /\ conv.skip = Cardinality({j \in KeysRead : Malformed(KeyPart(conv.file[j]))})
        /\ Len(conv.out) <= 32 * Cardinality({j \in KeysRead : ~Malformed(KeyPart(conv.file[j]))})
        /\ conv.count + conv.skip = Cardinality(KeysRead)

\* C20: the output length is 32 times the processed count after any sequence
\* of lines.
C20_OutputLength == conv.stage # "off" => Len(conv.out) = 32 * conv.count

=============================================================================
